---- MODULE Spec2Model ----
(***************************************************************************)
(* Car Components Supply Chain chaincode (consolidated CARcc variant).      *)
(*                                                                         *)
(* The ledger is the key-value world state.  Every invocation is simulated *)
(* against the committed ledger: GetState reads committed values, PutState  *)
(* collects writes, and the writes are committed only when the handler      *)
(* returns shim.Success.                                                    *)
(*                                                                         *)
(* Go strings are modelled as sequences of one-character strings so that    *)
(* strings.Split, strings.EqualFold, len and strconv.Atoi are computed, not *)
(* assumed.                                                                 *)
(***************************************************************************)
EXTENDS Integers, Sequences, FiniteSets, TLC

VARIABLES ledger, prev, last, nops, pending, versions, log, rest, retry

vars == <<ledger, prev, last, nops, pending, versions, log, rest, retry>>

\* Number of invocations explored in one behaviour.
MaxOps == 3

\* Concurrent submission: transactions endorsed in one behaviour, and how many
\* of them may wait for ordering at the same time.
MaxTx == 3

MaxPending == 2

\* Transactions submitted in a race between two clients.
MaxRaceTx == 4

\* REST server: requests sent by the client, and the last clock reading.
MaxRequests == 105

MaxTime == 80

\* Writes submitted through the REST server, and requests it handles at once.
MaxWrites == 2

MaxInFlight == 2

\* Deployment manager: the largest maxRetries passed to retryOperation.
MaxRetriesArg == 8

(***************************************************************************)
(* String literals                                                          *)
(***************************************************************************)
EmptyStr == << >>

Manufacture_m0 == <<"M","a","n","u","f","a","c","t","u","r","e",".","m","0">>

Supplier_s0 == <<"S","u","p","p","l","i","e","r",".","s","0">>

supplier_S0 == <<"s","u","p","p","l","i","e","r",".","S","0">>

Supplier_s1 == <<"S","u","p","p","l","i","e","r",".","s","1">>

Manufacture_m2 == <<"M","a","n","u","f","a","c","t","u","r","e",".","m","2">>

Dealer_d0 == <<"D","e","a","l","e","r",".","d","0">>

Dealer_d1 == <<"D","e","a","l","e","r",".","d","1">>

StrSupplier == <<"S","u","p","p","l","i","e","r">>

StrManufacture == <<"M","a","n","u","f","a","c","t","u","r","e">>

ID_000000000 == <<"0","0","0","0","0","0","0","0","0">>

ID_000000005 == <<"0","0","0","0","0","0","0","0","5">>

ID_100000001 == <<"1","0","0","0","0","0","0","0","1">>

ID_12345 == <<"1","2","3","4","5">>

ID_plus00000001 == <<"+","0","0","0","0","0","0","0","1">>

mANUFACTURE_M0 == <<"m","A","N","U","F","A","C","T","U","R","E",".","M","0">>

Manufacturer_x == <<"M","a","n","u","f","a","c","t","u","r","e","r",".","x">>

Dot_Manufacture == <<".","M","a","n","u","f","a","c","t","u","r","e">>

CAR0 == <<"C","A","R","0">>

CARX == <<"C","A","R","X">>

(***************************************************************************)
(* Go library functions used by the chaincode                               *)
(***************************************************************************)
Digits == {"0","1","2","3","4","5","6","7","8","9"}

UpperToLower ==
    [A |-> "a", B |-> "b", C |-> "c", D |-> "d", E |-> "e", F |-> "f",
     G |-> "g", H |-> "h", I |-> "i", J |-> "j", K |-> "k", L |-> "l",
     M |-> "m", N |-> "n", O |-> "o", P |-> "p", Q |-> "q", R |-> "r",
     S |-> "s", T |-> "t", U |-> "u", V |-> "v", W |-> "w", X |-> "x",
     Y |-> "y", Z |-> "z"]

\* Simple case folding of one ASCII character.
Fold(c) == IF c \in DOMAIN UpperToLower THEN UpperToLower[c] ELSE c

\* strings.EqualFold(a, b)
EqualFold(a, b) ==
    /\ Len(a) = Len(b)
    /\ \A i \in 1..Len(a) : Fold(a[i]) = Fold(b[i])

\* strings.Split(s, ".")[0]: the text before the first dot, or all of s.
SplitFirst(s) ==
    LET dots == {i \in 1..Len(s) : s[i] = "."}
    IN  IF dots = {} THEN s
        ELSE SubSeq(s, 1, (CHOOSE i \in dots : \A j \in dots : i <= j) - 1)

\* _, err := strconv.Atoi(s); err == nil.  Base 10, an optional sign, then at
\* least one digit and nothing else (nine characters cannot overflow int).
AtoiOk(s) ==
    LET body == IF Len(s) > 0 /\ s[1] \in {"+", "-"} THEN Tail(s) ELSE s
    IN  /\ Len(body) > 0
        /\ \A i \in 1..Len(body) : body[i] \in Digits

\* strconv.Itoa(i) for a single decimal digit.
Itoa(i) == <<ToString(i)>>

IDLen == 9

CheckIDFormat(ComponentID) ==
    IF Len(ComponentID) # IDLen THEN FALSE
    ELSE IF ~AtoiOk(ComponentID) THEN FALSE
    ELSE TRUE

(***************************************************************************)
(* Records and their JSON encoding                                          *)
(***************************************************************************)
\* GetState of a key that was never written.
Nil == [nil |-> TRUE]

\* CarComponent{} and Car{}: Go zero values.
ZeroComponent == [Retired |-> FALSE, Owner |-> EmptyStr, CarID |-> EmptyStr]

ZeroCar == [ComponentID |-> EmptyStr]

\* json.Marshal(CarComponent): keys "retired", "Owner", "carid".
MarshalComponent(c) == [retired |-> c.Retired, Owner |-> c.Owner, carid |-> c.CarID]

\* json.Marshal(Car): the struct tag is malformed, so the field name is used.
MarshalCar(c) == [ComponentID |-> c.ComponentID]

\* json.Unmarshal(bytes, &CarComponent{}): fields absent from the JSON object
\* (and a nil input) leave the zero value.
UnmarshalComponent(bytes) ==
    [Retired |-> IF "retired" \in DOMAIN bytes THEN bytes.retired ELSE FALSE,
     Owner   |-> IF "Owner" \in DOMAIN bytes THEN bytes.Owner ELSE EmptyStr,
     CarID   |-> IF "carid" \in DOMAIN bytes THEN bytes.carid ELSE EmptyStr]

UnmarshalCar(bytes) ==
    [ComponentID |-> IF "ComponentID" \in DOMAIN bytes THEN bytes.ComponentID
                     ELSE EmptyStr]

(***************************************************************************)
(* Ledger substrate: chaincode stub                                         *)
(***************************************************************************)
\* stub.GetState(key) against the committed state l.
GetState(l, key) == IF key \in DOMAIN l THEN l[key] ELSE Nil

\* stub.PutState(key, value) returns an error for an empty key.
PutStateOk(key) == key # EmptyStr

Put(key, value) == [key |-> key, value |-> value]

RECURSIVE ApplyPuts(_, _)
\* The write set applied in order: a later write to a key replaces an earlier one.
ApplyPuts(l, puts) ==
    IF puts = << >> THEN l
    ELSE ApplyPuts((Head(puts).key :> Head(puts).value) @@ l, Tail(puts))

OK == "OK"

ERROR == "ERROR"

\* shim.Success(payload) / shim.Error(msg), with the stub's reads and writes.
Success(payload, reads, puts) ==
    [status |-> OK, msg |-> "", payload |-> payload, reads |-> reads, puts |-> puts]

Error(msg, reads, puts) ==
    [status |-> ERROR, msg |-> msg, payload |-> Nil, reads |-> reads, puts |-> puts]

\* The transaction's writes reach the ledger only if the response is a success.
Commit(l, resp) == IF resp.status = OK THEN ApplyPuts(l, resp.puts) ELSE l

(***************************************************************************)
(* Failure messages of the chaincode, named after the error taxonomy        *)
(***************************************************************************)
ArityError2 == "Incorrect number of argument: expect 2."

ArityError3 == "Incorrect number of argument: expect 3."

ArityErrorTransfer == "Incorrect number of arguments, expecting 3."

ArityErrorQuery == "Incorrect number of arguments, expecting 1"

SupplierRoleError == "Incorrect role: expect Supplier."

ManufactureRoleError == "Incorrect role: expect Manufacture."

ValidationError == "Incorrect ComponentID format: expect 9-digit string"

AlreadyExistsError == "The given ComponentID is already used."

NotOwnerError == "You are not the Owner of this component, so cannot transfer it."

AlreadyRetiredError == "The given component is already Retired."

AlreadyMountedError == "The given component is already mounted."

CarOccupiedError == "The given car already mounted with component"

NoExistingComponentError == "This car doesn't have an old component mounted"

EmptyKeyError == "key must not be an empty string"

CarNotFoundError == "QueryCar Error: CarID not found"

ComponentNotFoundError == "QueryComponent Error: ComponentID not found"

InvalidFunctionError == "Invalid Smart Contract function name."

(***************************************************************************)
(* Chaincode handlers: response of one invocation simulated against l       *)
(***************************************************************************)
\* The six sample components of InitLedger, indexed from 0.
SeedComponents ==
    [i \in 0..5 |->
        CASE i = 0 -> [Retired |-> FALSE, Owner |-> Supplier_s0,    CarID |-> <<"C","A","R","0">>]
          [] i = 1 -> [Retired |-> FALSE, Owner |-> Supplier_s1,    CarID |-> <<"C","A","R","1">>]
          [] i = 2 -> [Retired |-> FALSE, Owner |-> Manufacture_m0, CarID |-> <<"C","A","R","2">>]
          [] i = 3 -> [Retired |-> FALSE, Owner |-> Manufacture_m2, CarID |-> <<"C","A","R","3">>]
          [] i = 4 -> [Retired |-> FALSE, Owner |-> Dealer_d0,      CarID |-> <<"C","A","R","4">>]
          [] i = 5 -> [Retired |-> TRUE,  Owner |-> Dealer_d1,      CarID |-> <<"C","A","R","5">>]]

SeedKey(i) == <<"0","0","0","0","0","0","0","0">> \o Itoa(i)

\* Fault variant: InitLedger that also writes the Car record of the first component.
InitLedger_SeedsCar(l) ==
    Success(Nil, {},
            [n \in 1..6 |-> Put(SeedKey(n - 1), MarshalComponent(SeedComponents[n - 1]))]
                \o <<Put(SeedComponents[0].CarID, MarshalCar([ComponentID |-> SeedKey(0)]))>>)

InitLedger(l) ==
    Success(Nil, {},
            [n \in 1..6 |-> Put(SeedKey(n - 1), MarshalComponent(SeedComponents[n - 1]))])

\* Fault variant: AddComponent that writes the record without reading the key.
AddComponent_BlindWrite(l, args) ==
    IF Len(args) # 2 THEN Error(ArityError2, {}, << >>)
    ELSE IF ~EqualFold(SplitFirst(args[1]), StrSupplier) THEN Error(SupplierRoleError, {}, << >>)
    ELSE IF ~CheckIDFormat(args[2]) THEN Error(ValidationError, {}, << >>)
    ELSE Success(Nil, {},
                 <<Put(args[2], MarshalComponent([Retired |-> FALSE, Owner |-> args[1],
                                                  CarID |-> EmptyStr]))>>)

\* Fault variant: AddComponent that skips the "already used" test.
AddComponent_NoExistCheck(l, args) ==
    IF Len(args) # 2 THEN Error(ArityError2, {}, << >>)
    ELSE IF ~EqualFold(SplitFirst(args[1]), StrSupplier) THEN Error(SupplierRoleError, {}, << >>)
    ELSE IF ~CheckIDFormat(args[2]) THEN Error(ValidationError, {}, << >>)
    ELSE Success(Nil, {args[2]},
                 <<Put(args[2], MarshalComponent([Retired |-> FALSE, Owner |-> args[1],
                                                  CarID |-> EmptyStr]))>>)

AddComponent(l, args) ==
    IF Len(args) # 2 THEN Error(ArityError2, {}, << >>)
    ELSE LET rolename    == args[1]
             role        == SplitFirst(args[1])
             ComponentID == args[2]
         IN  IF ~EqualFold(role, StrSupplier) THEN Error(SupplierRoleError, {}, << >>)
             ELSE IF ~CheckIDFormat(ComponentID) THEN Error(ValidationError, {}, << >>)
             ELSE LET exist == GetState(l, ComponentID)
                      component == [Retired |-> FALSE, Owner |-> rolename, CarID |-> EmptyStr]
                  IN  IF exist # Nil THEN Error(AlreadyExistsError, {ComponentID}, << >>)
                      ELSE Success(Nil, {ComponentID},
                                   <<Put(ComponentID, MarshalComponent(component))>>)

\* Fault variant: TransferComponent that writes the record back as it was read.
TransferComponent_KeepsOwner(l, args) ==
    IF Len(args) # 3 THEN Error(ArityErrorTransfer, {}, << >>)
    ELSE IF ~CheckIDFormat(args[3]) THEN Error(ValidationError, {}, << >>)
    ELSE IF ~EqualFold(UnmarshalComponent(GetState(l, args[3])).Owner, args[1])
         THEN Error(NotOwnerError, {args[3]}, << >>)
    ELSE Success(Nil, {args[3]},
                 <<Put(args[3], MarshalComponent(UnmarshalComponent(GetState(l, args[3]))))>>)

\* Fault variant: TransferComponent that stores a fresh record for the new owner.
TransferComponent_FreshRecord(l, args) ==
    IF Len(args) # 3 THEN Error(ArityErrorTransfer, {}, << >>)
    ELSE IF ~CheckIDFormat(args[3]) THEN Error(ValidationError, {}, << >>)
    ELSE IF ~EqualFold(UnmarshalComponent(GetState(l, args[3])).Owner, args[1])
         THEN Error(NotOwnerError, {args[3]}, << >>)
    ELSE Success(Nil, {args[3]},
                 <<Put(args[3], MarshalComponent([ZeroComponent EXCEPT !.Owner = args[2]]))>>)

\* Fault variant: TransferComponent that skips the owner test.
TransferComponent_NoOwnerCheck(l, args) ==
    IF Len(args) # 3 THEN Error(ArityErrorTransfer, {}, << >>)
    ELSE IF ~CheckIDFormat(args[3]) THEN Error(ValidationError, {}, << >>)
    ELSE Success(Nil, {args[3]},
                 <<Put(args[3],
                       MarshalComponent([UnmarshalComponent(GetState(l, args[3]))
                                            EXCEPT !.Owner = args[2]]))>>)

TransferComponent(l, args) ==
    IF Len(args) # 3 THEN Error(ArityErrorTransfer, {}, << >>)
    ELSE LET ComponentID == args[3]
             rolename    == args[1]
             newOwner    == args[2]
         IN  IF ~CheckIDFormat(ComponentID) THEN Error(ValidationError, {}, << >>)
             ELSE LET component == UnmarshalComponent(GetState(l, ComponentID))
                      oldOwner  == component.Owner
                  IN  IF ~EqualFold(oldOwner, rolename)
                      THEN Error(NotOwnerError, {ComponentID}, << >>)
                      ELSE Success(Nil, {ComponentID},
                             <<Put(ComponentID,
                                   MarshalComponent([component EXCEPT !.Owner = newOwner]))>>)

\* PutState calls whose error result the handler does not look at: a rejected
\* call adds nothing to the write set and execution continues.
Unchecked(puts) == SelectSeq(puts, LAMBDA p : PutStateOk(p.key))

\* Fault variant: MountComponent that does not look at the error of the second
\* PutState and reports success with the writes accepted so far.
MountComponent_IgnorePutError(l, args) ==
    IF Len(args) # 3 THEN Error(ArityError3, {}, << >>)
    ELSE IF ~EqualFold(SplitFirst(args[1]), StrManufacture)
         THEN Error(ManufactureRoleError, {}, << >>)
    ELSE IF ~CheckIDFormat(args[2]) THEN Error(ValidationError, {}, << >>)
    ELSE LET component == UnmarshalComponent(GetState(l, args[2]))
             car       == UnmarshalCar(GetState(l, args[3]))
             reads     == {args[2], args[3]}
         IN  IF component.Retired THEN Error(AlreadyRetiredError, reads, << >>)
             ELSE IF ~EqualFold(component.CarID, EmptyStr)
                  THEN Error(AlreadyMountedError, reads, << >>)
             ELSE IF ~EqualFold(car.ComponentID, EmptyStr)
                  THEN Error(CarOccupiedError, reads, << >>)
             ELSE Success(Nil, reads,
                    Unchecked(<<Put(args[2], MarshalComponent([component EXCEPT !.CarID = args[3]])),
                                Put(args[3], MarshalCar([car EXCEPT !.ComponentID = args[2]]))>>))

\* Fault variant: MountComponent that writes the Car record without reading it.
MountComponent_NoCarRead(l, args) ==
    IF Len(args) # 3 THEN Error(ArityError3, {}, << >>)
    ELSE IF ~EqualFold(SplitFirst(args[1]), StrManufacture)
         THEN Error(ManufactureRoleError, {}, << >>)
    ELSE IF ~CheckIDFormat(args[2]) THEN Error(ValidationError, {}, << >>)
    ELSE LET component == UnmarshalComponent(GetState(l, args[2]))
         IN  IF component.Retired THEN Error(AlreadyRetiredError, {args[2]}, << >>)
             ELSE IF ~EqualFold(component.CarID, EmptyStr)
                  THEN Error(AlreadyMountedError, {args[2]}, << >>)
             ELSE IF ~PutStateOk(args[3]) THEN Error(EmptyKeyError, {args[2]}, << >>)
             ELSE Success(Nil, {args[2]},
                          <<Put(args[2], MarshalComponent([component EXCEPT !.CarID = args[3]])),
                            Put(args[3], MarshalCar([ComponentID |-> args[2]]))>>)

\* Fault variant: MountComponent that tests "mounted" before "retired".
MountComponent_MountedCheckFirst(l, args) ==
    IF Len(args) # 3 THEN Error(ArityError3, {}, << >>)
    ELSE LET rolename    == args[1]
             role        == SplitFirst(args[1])
             ComponentID == args[2]
             CarID       == args[3]
         IN  IF ~EqualFold(role, StrManufacture) THEN Error(ManufactureRoleError, {}, << >>)
             ELSE IF ~CheckIDFormat(ComponentID) THEN Error(ValidationError, {}, << >>)
             ELSE LET component == UnmarshalComponent(GetState(l, ComponentID))
                      car       == UnmarshalCar(GetState(l, CarID))
                      reads     == {ComponentID, CarID}
                      putComp   == Put(ComponentID,
                                       MarshalComponent([component EXCEPT !.CarID = CarID]))
                      putCar    == Put(CarID,
                                       MarshalCar([car EXCEPT !.ComponentID = ComponentID]))
                  IN  IF ~EqualFold(component.CarID, EmptyStr)
                      THEN Error(AlreadyMountedError, reads, << >>)
                      ELSE IF component.Retired THEN Error(AlreadyRetiredError, reads, << >>)
                      ELSE IF ~EqualFold(car.ComponentID, EmptyStr)
                           THEN Error(CarOccupiedError, reads, << >>)
                      ELSE IF ~PutStateOk(ComponentID) THEN Error(EmptyKeyError, reads, << >>)
                      ELSE IF ~PutStateOk(CarID) THEN Error(EmptyKeyError, reads, <<putComp>>)
                      ELSE Success(Nil, reads, <<putComp, putCar>>)

MountComponent(l, args) ==
    IF Len(args) # 3 THEN Error(ArityError3, {}, << >>)
    ELSE LET rolename    == args[1]
             role        == SplitFirst(args[1])
             ComponentID == args[2]
             CarID       == args[3]
         IN  IF ~EqualFold(role, StrManufacture) THEN Error(ManufactureRoleError, {}, << >>)
             ELSE IF ~CheckIDFormat(ComponentID) THEN Error(ValidationError, {}, << >>)
             ELSE LET component == UnmarshalComponent(GetState(l, ComponentID))
                      car       == UnmarshalCar(GetState(l, CarID))
                      reads     == {ComponentID, CarID}
                      putComp   == Put(ComponentID,
                                       MarshalComponent([component EXCEPT !.CarID = CarID]))
                      putCar    == Put(CarID,
                                       MarshalCar([car EXCEPT !.ComponentID = ComponentID]))
                  IN  IF component.Retired THEN Error(AlreadyRetiredError, reads, << >>)
                      ELSE IF ~EqualFold(component.CarID, EmptyStr)
                           THEN Error(AlreadyMountedError, reads, << >>)
                      ELSE IF ~EqualFold(car.ComponentID, EmptyStr)
                           THEN Error(CarOccupiedError, reads, << >>)
                      ELSE IF ~PutStateOk(ComponentID) THEN Error(EmptyKeyError, reads, << >>)
                      ELSE IF ~PutStateOk(CarID) THEN Error(EmptyKeyError, reads, <<putComp>>)
                      ELSE Success(Nil, reads, <<putComp, putCar>>)

\* Fault variant: ReplaceComponent that tests the Car before the new Component.
ReplaceComponent_CarCheckFirst(l, args) ==
    IF Len(args) # 3 THEN Error(ArityError3, {}, << >>)
    ELSE LET rolename    == args[1]
             role        == SplitFirst(rolename)
             ComponentID == args[2]
             CarID       == args[3]
         IN  IF ~EqualFold(role, StrManufacture) THEN Error(ManufactureRoleError, {}, << >>)
             ELSE IF ~CheckIDFormat(ComponentID) THEN Error(ValidationError, {}, << >>)
             ELSE LET component == UnmarshalComponent(GetState(l, ComponentID))
                      car       == UnmarshalCar(GetState(l, CarID))
                      reads     == {ComponentID, CarID}
                  IN  IF EqualFold(car.ComponentID, EmptyStr)
                      THEN Error(NoExistingComponentError, reads, << >>)
                      ELSE IF component.Retired THEN Error(AlreadyRetiredError, reads, << >>)
                      ELSE IF ~EqualFold(component.CarID, EmptyStr)
                           THEN Error(AlreadyMountedError, reads, << >>)
                      ELSE LET oldComponentID == car.ComponentID
                               oldComponent   == UnmarshalComponent(GetState(l, oldComponentID))
                               newRec == [Retired |-> FALSE, Owner |-> oldComponent.Owner,
                                          CarID |-> CarID]
                               carRec == [car EXCEPT !.ComponentID = ComponentID]
                               oldRec == [Retired |-> TRUE, Owner |-> rolename,
                                          CarID |-> EmptyStr]
                           IN  Success(Nil, reads \cup {oldComponentID},
                                       Unchecked(<<Put(ComponentID, MarshalComponent(newRec)),
                                                   Put(CarID, MarshalCar(carRec)),
                                                   Put(oldComponentID, MarshalComponent(oldRec))>>))

ReplaceComponent(l, args) ==
    IF Len(args) # 3 THEN Error(ArityError3, {}, << >>)
    ELSE LET rolename    == args[1]
             role        == SplitFirst(rolename)
             ComponentID == args[2]
             CarID       == args[3]
         IN  IF ~EqualFold(role, StrManufacture) THEN Error(ManufactureRoleError, {}, << >>)
             ELSE IF ~CheckIDFormat(ComponentID) THEN Error(ValidationError, {}, << >>)
             ELSE LET component == UnmarshalComponent(GetState(l, ComponentID))
                      car       == UnmarshalCar(GetState(l, CarID))
                      reads     == {ComponentID, CarID}
                  IN  IF component.Retired THEN Error(AlreadyRetiredError, reads, << >>)
                      ELSE IF ~EqualFold(component.CarID, EmptyStr)
                           THEN Error(AlreadyMountedError, reads, << >>)
                      ELSE IF EqualFold(car.ComponentID, EmptyStr)
                           THEN Error(NoExistingComponentError, reads, << >>)
                      ELSE LET oldComponentID == car.ComponentID
                               oldComponent   == UnmarshalComponent(GetState(l, oldComponentID))
                               newRec == [Retired |-> FALSE, Owner |-> oldComponent.Owner,
                                          CarID |-> CarID]
                               carRec == [car EXCEPT !.ComponentID = ComponentID]
                               oldRec == [Retired |-> TRUE, Owner |-> rolename,
                                          CarID |-> EmptyStr]
                           IN  Success(Nil, reads \cup {oldComponentID},
                                       Unchecked(<<Put(ComponentID, MarshalComponent(newRec)),
                                                   Put(CarID, MarshalCar(carRec)),
                                                   Put(oldComponentID, MarshalComponent(oldRec))>>))

\* Fault variant: RecallComponent that skips the retired test.
RecallComponent_NoRetiredCheck(l, args) ==
    IF Len(args) # 2 THEN Error(ArityError2, {}, << >>)
    ELSE IF ~EqualFold(SplitFirst(args[1]), StrManufacture)
         THEN Error(ManufactureRoleError, {}, << >>)
    ELSE IF ~CheckIDFormat(args[2]) THEN Error(ValidationError, {}, << >>)
    ELSE Success(Nil, {args[2]},
                 <<Put(args[2], MarshalComponent([Retired |-> TRUE, Owner |-> args[1],
                                                  CarID |-> EmptyStr]))>>)

\* Fault variant: RecallComponent that retires the Component where it is mounted.
RecallComponent_KeepsCarID(l, args) ==
    IF Len(args) # 2 THEN Error(ArityError2, {}, << >>)
    ELSE IF ~EqualFold(SplitFirst(args[1]), StrManufacture)
         THEN Error(ManufactureRoleError, {}, << >>)
    ELSE IF ~CheckIDFormat(args[2]) THEN Error(ValidationError, {}, << >>)
    ELSE LET component == UnmarshalComponent(GetState(l, args[2]))
         IN  IF component.Retired THEN Error(AlreadyRetiredError, {args[2]}, << >>)
             ELSE Success(Nil, {args[2]},
                          <<Put(args[2], MarshalComponent([Retired |-> TRUE, Owner |-> args[1],
                                                           CarID |-> component.CarID]))>>)

RecallComponent(l, args) ==
    IF Len(args) # 2 THEN Error(ArityError2, {}, << >>)
    ELSE LET rolename    == args[1]
             role        == SplitFirst(rolename)
             ComponentID == args[2]
         IN  IF ~EqualFold(role, StrManufacture) THEN Error(ManufactureRoleError, {}, << >>)
             ELSE IF ~CheckIDFormat(ComponentID) THEN Error(ValidationError, {}, << >>)
             ELSE LET component == UnmarshalComponent(GetState(l, ComponentID))
                      recalled  == [Retired |-> TRUE, Owner |-> rolename, CarID |-> EmptyStr]
                  IN  IF component.Retired THEN Error(AlreadyRetiredError, {ComponentID}, << >>)
                      ELSE Success(Nil, {ComponentID},
                                   Unchecked(<<Put(ComponentID, MarshalComponent(recalled))>>))

\* Fault variant: CreateCar that skips the role test.
CreateCar_NoRoleCheck(l, args) ==
    IF Len(args) # 3 THEN Error(ArityError3, {}, << >>)
    ELSE IF ~CheckIDFormat(args[2]) THEN Error(ValidationError, {}, << >>)
    ELSE IF ~PutStateOk(args[3]) THEN Error(EmptyKeyError, {}, << >>)
    ELSE Success(Nil, {}, <<Put(args[3], MarshalCar([ComponentID |-> args[2]]))>>)

CreateCar(l, args) ==
    IF Len(args) # 3 THEN Error(ArityError3, {}, << >>)
    ELSE LET role        == SplitFirst(args[1])
             ComponentID == args[2]
             CarID       == args[3]
             car         == [ComponentID |-> ComponentID]
         IN  IF ~EqualFold(role, StrManufacture) THEN Error(ManufactureRoleError, {}, << >>)
             ELSE IF ~CheckIDFormat(ComponentID) THEN Error(ValidationError, {}, << >>)
             ELSE IF ~PutStateOk(CarID) THEN Error(EmptyKeyError, {}, << >>)
             ELSE Success(Nil, {}, <<Put(CarID, MarshalCar(car))>>)

\* Fault variant: QueryCar that returns whatever GetState gave, found or not.
QueryCar_NoAbsentCheck(l, args) ==
    IF Len(args) # 1 THEN Error(ArityErrorQuery, {}, << >>)
    ELSE Success(GetState(l, args[1]), {args[1]}, << >>)

QueryCar(l, args) ==
    IF Len(args) # 1 THEN Error(ArityErrorQuery, {}, << >>)
    ELSE LET CarID      == args[1]
             carAsBytes == GetState(l, CarID)
         IN  IF carAsBytes = Nil THEN Error(CarNotFoundError, {CarID}, << >>)
             ELSE Success(carAsBytes, {CarID}, << >>)

\* Fault variant: QueryComponent that reads the key before checking its format.
QueryComponent_ReadFirst(l, args) ==
    IF Len(args) # 1 THEN Error(ArityErrorQuery, {}, << >>)
    ELSE LET ComponentID      == args[1]
             componentAsBytes == GetState(l, ComponentID)
         IN  IF ~CheckIDFormat(ComponentID) THEN Error(ValidationError, {ComponentID}, << >>)
             ELSE Success(componentAsBytes, {ComponentID}, << >>)

QueryComponent(l, args) ==
    IF Len(args) # 1 THEN Error(ArityErrorQuery, {}, << >>)
    ELSE LET ComponentID      == args[1]
             componentAsBytes == GetState(l, ComponentID)
         IN  IF ~CheckIDFormat(ComponentID) THEN Error(ValidationError, {}, << >>)
             ELSE IF Len(ComponentID) = 0
                  THEN Error(ComponentNotFoundError, {ComponentID}, << >>)
             ELSE Success(componentAsBytes, {ComponentID}, << >>)

\* Invoke: dispatch on the function name.
Invoke(l, fn, args) ==
    IF fn = "AddComponent" THEN AddComponent(l, args)
    ELSE IF fn = "TransferComponent" THEN TransferComponent(l, args)
    ELSE IF fn = "MountComponent" THEN MountComponent(l, args)
    ELSE IF fn = "ReplaceComponent" THEN ReplaceComponent(l, args)
    ELSE IF fn = "RecallComponent" THEN RecallComponent(l, args)
    ELSE IF fn = "InitLedger" THEN InitLedger(l)
    ELSE IF fn = "CreateCar" THEN CreateCar(l, args)
    ELSE IF fn = "QueryCar" THEN QueryCar(l, args)
    ELSE IF fn = "QueryComponent" THEN QueryComponent(l, args)
    ELSE Error(InvalidFunctionError, {}, << >>)

\* stub.GetCreator(): the serialized identity of the submitting client, as the
\* substrate provides it; a member of Org1 and a member of Org2.
Org1MSP == <<"O","r","g","1","M","S","P">>

Org2MSP == <<"O","r","g","2","M","S","P">>

Creators ==
    {[Mspid |-> Org1MSP, IdBytes |-> <<"a">>], [Mspid |-> Org2MSP, IdBytes |-> <<"b">>]}

\* The identities an invocation of fn can observe: AddComponent is the only
\* handler that calls stub.GetCreator.
CreatorsSeenBy(fn) == IF fn = "AddComponent" THEN Creators ELSE {Nil}

\* json.Unmarshal(creatorAsBytes, &Creator{}).
UnmarshalCreator(bytes) ==
    [Mspid   |-> IF "Mspid" \in DOMAIN bytes THEN bytes.Mspid ELSE EmptyStr,
     IdBytes |-> IF "IdBytes" \in DOMAIN bytes THEN bytes.IdBytes ELSE EmptyStr]

\* Fault variant: AddComponent is open to members of Org1 only.
InvokeAs_MspGate(creatorAsBytes, l, fn, args) ==
    IF fn = "AddComponent" /\ UnmarshalCreator(creatorAsBytes).Mspid # Org1MSP
    THEN Error(SupplierRoleError, {}, << >>)
    ELSE Invoke(l, fn, args)

\* Invoke for a client whose identity is creatorAsBytes.  AddComponent fetches
\* and decodes the identity and prints it; no handler decides anything by it.
InvokeAs(creatorAsBytes, l, fn, args) ==
    IF fn = "AddComponent"
    THEN LET creator == UnmarshalCreator(creatorAsBytes)
         IN  AddComponent(l, args)
    ELSE Invoke(l, fn, args)

(***************************************************************************)
(* Argument lists submitted by clients                                      *)
(***************************************************************************)
ValidIDs == {ID_000000000, ID_000000005, ID_100000001}

\* Car keys are free-form; one of them is itself a nine-digit string.
CarIDs == {CAR0, ID_100000001}

ManufactureRoles == {Manufacture_m0}

AddArgs ==
    {<<Supplier_s0, id>> : id \in ValidIDs}
        \cup {<<supplier_S0, ID_100000001>>, <<Manufacture_m0, ID_100000001>>,
              <<Supplier_s0, ID_12345>>, <<Supplier_s0>>}

TransferArgs ==
    {<<Supplier_s0, Manufacture_m0, ID_000000000>>,
     <<Supplier_s0, Manufacture_m0, ID_100000001>>,
     <<Supplier_s0, Dealer_d0, ID_100000001>>,
     <<supplier_S0, Manufacture_m0, ID_100000001>>,
     <<EmptyStr, Dealer_d0, ID_100000001>>,
     <<Dealer_d1, Manufacture_m0, ID_000000005>>,
     <<Supplier_s0, Dealer_d0, ID_12345>>,
     <<Supplier_s0, ID_100000001>>}

AssemblyArgs ==
    {<<r, id, k>> : r \in ManufactureRoles, id \in ValidIDs, k \in CarIDs}
        \cup {<<Manufacture_m0, ID_100000001, EmptyStr>>,
              <<Supplier_s0, ID_100000001, CARX>>,
              <<Manufacture_m0, ID_12345, CARX>>,
              <<Manufacture_m0, ID_100000001>>}

RecallArgs ==
    {<<r, id>> : r \in ManufactureRoles, id \in ValidIDs}
        \cup {<<Supplier_s0, ID_100000001>>, <<Manufacture_m0, ID_12345>>,
              <<Manufacture_m0>>}

QueryComponentArgs ==
    {<<ID_000000005>>, <<ID_100000001>>, <<ID_12345>>, <<ID_plus00000001>>, << >>}

QueryCarArgs == {<<k>> : k \in CarIDs} \cup {<<EmptyStr>>, << >>}

(***************************************************************************)
(* State machine: one committed invocation per step                         *)
(***************************************************************************)
(* REST API server: rate limiting in front of GET /api/blockchain/products  *)
(***************************************************************************)
\* Limits of setupRateLimiting, windows in seconds.
GlobalWindow == 900

GlobalMax == 1000

ApiPoints == 100

BlockchainPoints == 10

LimiterDuration == 60

TooManyRequests == 429

\* A limiter's record for one IP: points consumed in the window that ends at
\* expire.  No record reads as an expired one.
NoRecord == [consumed |-> 0, expire |-> 0]

\* limiter.consume(req.ip) at time now: a fresh window starts when there is no
\* live record, otherwise one more point is counted, also for a request that
\* is then turned down.
Consume(rec, now, duration) ==
    IF now >= rec.expire THEN [consumed |-> 1, expire |-> now + duration]
    ELSE [rec EXCEPT !.consumed = rec.consumed + 1]

\* The middleware chain for GET /api/blockchain/products from one IP with a
\* valid token; routeStatus is what the route handler answers (200, or 500 when
\* the gateway call throws).  Yields the status and the limiter records.
HandleGetProducts(r, routeStatus) ==
    LET global     == Consume(r.global, r.now, GlobalWindow)
        api        == Consume(r.api, r.now, LimiterDuration)
        blockchain == Consume(r.blockchain, r.now, LimiterDuration)
    IN  IF global.consumed > GlobalMax
        THEN [r EXCEPT !.global = global, !.status = TooManyRequests]
        ELSE IF api.consumed > ApiPoints
        THEN [r EXCEPT !.global = global, !.api = api, !.status = TooManyRequests]
        ELSE IF blockchain.consumed > BlockchainPoints
        THEN [r EXCEPT !.global = global, !.api = api, !.blockchain = blockchain,
                       !.status = TooManyRequests]
        ELSE [r EXCEPT !.global = global, !.api = api, !.blockchain = blockchain,
                       !.status = routeStatus]

\* cache.get(key) on a key with no entry (undefined).
NoEntry == -1

\* The cache keys of one product id: `product_${id}` and 'all_products'.
ProductKey == "product"

AllProductsKey == "all_products"

CacheKeys == {ProductKey, AllProductsKey}

\* The last response to a GET: the key it serves, the data it carries and the
\* newest write that had been acknowledged when the request arrived.
NoAnswer == [key |-> "", data |-> 0, since |-> 0]

\* The server right after start: no limiter records, no request served, an
\* empty cache and no request in flight.  store is the number of writes the
\* ledger has committed to the product, which stands for the data a read of
\* the product or of the product list returns.
RestInit ==
    [now |-> 0, global |-> NoRecord, api |-> NoRecord, blockchain |-> NoRecord,
     status |-> 0, sent |-> 0, firstAt |-> 0, lastAt |-> 0,
     store |-> 0, cache |-> [k \in CacheKeys |-> NoEntry], gets |-> {}, posts |-> {},
     acked |-> 0, answer |-> NoAnswer]

(***************************************************************************)
\* The deployment manager before retryOperation is called.
RetryInit ==
    [pc |-> "idle", maxRetries |-> 0, i |-> 0, attempts |-> 0, succeeded |-> FALSE,
     error |-> 0]

NoCall == [fn |-> "", args |-> << >>, resp |-> Error("", {}, << >>)]

Init ==
    /\ ledger = << >>
    /\ prev = << >>
    /\ last = NoCall
    /\ nops = 0
    /\ pending = {}
    /\ versions = << >>
    /\ log = << >>
    /\ rest = RestInit
    /\ retry = RetryInit

\* One invocation: simulate fn(args) against the committed ledger, commit its
\* writes if it succeeded, and record the call and the ledger it ran against.
Call(fn, args) ==
    /\ nops < MaxOps
    /\ \E creatorAsBytes \in CreatorsSeenBy(fn) :
          LET resp == InvokeAs(creatorAsBytes, ledger, fn, args)
          IN  /\ ledger' = Commit(ledger, resp)
              /\ last' = [fn |-> fn, args |-> args, resp |-> resp]
    /\ prev' = ledger
    /\ nops' = nops + 1
    /\ UNCHANGED <<pending, versions, log, rest, retry>>

DoInitLedger == Call("InitLedger", << >>)

DoAddComponent == \E args \in AddArgs : Call("AddComponent", args)

DoTransferComponent == \E args \in TransferArgs : Call("TransferComponent", args)

DoMountComponent == \E args \in AssemblyArgs : Call("MountComponent", args)

DoReplaceComponent == \E args \in AssemblyArgs : Call("ReplaceComponent", args)

DoRecallComponent == \E args \in RecallArgs : Call("RecallComponent", args)

DoCreateCar == \E args \in AssemblyArgs : Call("CreateCar", args)

DoQueryCar == \E args \in QueryCarArgs : Call("QueryCar", args)

DoQueryComponent == \E args \in QueryComponentArgs : Call("QueryComponent", args)

DoInvalidFunction == Call("DeleteComponent", <<ID_100000001>>)

Next ==
    \/ DoInitLedger
    \/ DoAddComponent
    \/ DoTransferComponent
    \/ DoMountComponent
    \/ DoReplaceComponent
    \/ DoRecallComponent
    \/ DoCreateCar
    \/ DoQueryCar
    \/ DoQueryComponent
    \/ DoInvalidFunction

Spec == Init /\ [][Next]_vars

(***************************************************************************)
(* Reading the ledger the way the chaincode does                            *)
(***************************************************************************)
\* The CarComponent a handler sees at key id, and the Car it sees at key k.
ComponentAt(l, id) == UnmarshalComponent(GetState(l, id))

CarAt(l, k) == UnmarshalCar(GetState(l, k))

Succeeded(fn) == last.fn = fn /\ last.resp.status = OK

Failed(fn, msg) == last.fn = fn /\ last.resp.status = ERROR /\ last.resp.msg = msg

TypeOK ==
    /\ nops \in 0..MaxOps
    /\ last.resp.status \in {OK, ERROR}
    /\ \A k \in DOMAIN ledger : k # EmptyStr

\* A ledger value that is a marshalled CarComponent (not a Car, not absent).
IsComponentRecord(bytes) == "Owner" \in DOMAIN bytes

\* Keys and roles used to probe what a further invocation would return.
ProbeCarIDs == CarIDs \cup {CARX}

ProbeManufactureRoles == {Manufacture_m0, Manufacture_m2}

ProbeRoles == {Supplier_s0, supplier_S0, Manufacture_m0, Dealer_d0, Dealer_d1, EmptyStr}

ProbeOwners == {Manufacture_m0, Dealer_d0}

Refused(resp, msg) == resp.status = ERROR /\ resp.msg = msg /\ resp.puts = << >>

\* The ledger is the initial one or the last invocation has just changed it.
\* Every ledger the chaincode can reach occurs in such a state, so a probe that
\* depends on the ledger alone is evaluated there and covers every ledger.
LedgerIsNew == last.fn = "" \/ ledger # prev

(***************************************************************************)
(* Ledger invariants and operation contracts                                *)
(***************************************************************************)
\* C1: once the record read at a ComponentID has Retired = TRUE, the record read
\* at that ComponentID after any further invocation still has Retired = TRUE.
C1_RetiredIsMonotonic ==
    \A id \in DOMAIN prev :
        ComponentAt(prev, id).Retired => ComponentAt(ledger, id).Retired

\* C2: right after MountComponent(Manufacture.*, C, K) succeeded, mounting a
\* different, unretired, unmounted Component onto K fails with CarOccupiedError
\* and mounting C onto any other Car fails with AlreadyMountedError.
C2_MountExclusivity ==
    Succeeded("MountComponent") =>
        LET C == last.args[2]
            K == last.args[3]
        IN  \A m \in ProbeManufactureRoles :
              /\ \A C2 \in ValidIDs \ {C} :
                    (/\ ~ComponentAt(ledger, C2).Retired
                     /\ ComponentAt(ledger, C2).CarID = EmptyStr)
                    => Refused(MountComponent(ledger, <<m, C2, K>>), CarOccupiedError)
              /\ \A K2 \in ProbeCarIDs \ {K} :
                    Refused(MountComponent(ledger, <<m, C, K2>>), AlreadyMountedError)

\* C3: after ReplaceComponent(Manufacture.m, Cnew, K) succeeded on a Car K that
\* named Cold: Cnew has Cold's former Owner, is unretired and has CarID = K;
\* Cold is retired, unmounted and owned by Manufacture.m; K names Cnew.
C3_ReplacePreservesCustody ==
    Succeeded("ReplaceComponent") =>
        LET m    == last.args[1]
            Cnew == last.args[2]
            K    == last.args[3]
            Cold == CarAt(prev, K).ComponentID
        IN  /\ ComponentAt(ledger, Cnew).Owner = ComponentAt(prev, Cold).Owner
            /\ ComponentAt(ledger, Cold).Retired
            /\ ComponentAt(ledger, Cold).CarID = EmptyStr
            /\ ComponentAt(ledger, Cold).Owner = m
            /\ ~ComponentAt(ledger, Cnew).Retired
            /\ ComponentAt(ledger, Cnew).CarID = K
            /\ CarAt(ledger, K).ComponentID = Cnew

\* C4: for every Car key K at most one Component record has CarID = K.
C4_AtMostOneComponentPerCar ==
    \A a, b \in DOMAIN ledger :
        (/\ a # b
         /\ ComponentAt(ledger, a).CarID # EmptyStr)
        => ComponentAt(ledger, a).CarID # ComponentAt(ledger, b).CarID

\* C5: every Component whose CarID is non-empty is referenced back by exactly
\* one Car record.
C5_MountedComponentReferencedBack ==
    \A id \in DOMAIN ledger :
        ComponentAt(ledger, id).CarID # EmptyStr
        => Cardinality({k \in DOMAIN ledger : CarAt(ledger, k).ComponentID = id}) = 1

\* C6: wherever Component C reads as retired, MountComponent(Manufacture.*, C, K),
\* ReplaceComponent(Manufacture.*, C, K) and RecallComponent(Manufacture.*, C)
\* each fail with AlreadyRetiredError without writing, for every K.
C6_RetirementIsTerminal ==
    \A C \in DOMAIN ledger :
        ComponentAt(ledger, C).Retired =>
            \A m \in ProbeManufactureRoles :
              /\ LedgerIsNew =>
                    /\ \A K \in ProbeCarIDs \cup {EmptyStr} :
                          /\ Refused(MountComponent(ledger, <<m, C, K>>), AlreadyRetiredError)
                          /\ Refused(ReplaceComponent(ledger, <<m, C, K>>), AlreadyRetiredError)
                    /\ Refused(RecallComponent(ledger, <<m, C>>), AlreadyRetiredError)
              /\ (/\ \/ last.fn \in {"MountComponent", "ReplaceComponent"} /\ Len(last.args) = 3
                     \/ last.fn = "RecallComponent" /\ Len(last.args) = 2
                  /\ last.args[1] = m
                  /\ last.args[2] = C
                  /\ ComponentAt(prev, C).Retired)
                 => /\ Refused(last.resp, AlreadyRetiredError)
                    /\ ledger = prev

\* A recall of a retired Component has just been refused.
C6_Witness ==
    /\ Failed("RecallComponent", AlreadyRetiredError)
    /\ ComponentAt(ledger, last.args[2]).Retired
    /\ ledger = prev

\* C7: AddComponent by a Supplier with a well-formed id succeeds exactly when the
\* key is absent and then stores {Retired FALSE, Owner role, CarID ""}; repeating
\* it fails with AlreadyExistsError and leaves the stored record as it was.
C7_AddComponentOnce ==
    /\ \A args \in {a \in AddArgs : Len(a) = 2} :
          (/\ LedgerIsNew
           /\ EqualFold(SplitFirst(args[1]), StrSupplier)
           /\ CheckIDFormat(args[2]))
          => /\ AddComponent(ledger, args).status = OK <=> args[2] \notin DOMAIN ledger
             /\ args[2] \in DOMAIN ledger
                => Refused(AddComponent(ledger, args), AlreadyExistsError)
    /\ Succeeded("AddComponent") =>
          LET role == last.args[1]
              id   == last.args[2]
          IN  /\ id \notin DOMAIN prev
              /\ ledger = (id :> [retired |-> FALSE, Owner |-> role, carid |-> EmptyStr]) @@ prev
              /\ \A r2 \in {Supplier_s0, supplier_S0, Supplier_s1} :
                    /\ Refused(AddComponent(ledger, <<r2, id>>), AlreadyExistsError)
                    /\ Commit(ledger, AddComponent(ledger, <<r2, id>>)) = ledger
    /\ Failed("AddComponent", AlreadyExistsError) => ledger = prev

\* The same ComponentID was added a second time and refused.
C7_Witness ==
    /\ Failed("AddComponent", AlreadyExistsError)
    /\ IsComponentRecord(GetState(ledger, last.args[2]))
    /\ ComponentAt(ledger, last.args[2]).CarID = EmptyStr
    /\ ledger = prev

\* C8 as stated: for every role string X and every Component whose stored Owner
\* differs from X, TransferComponent(X, newOwner, id) fails with NotOwnerError and
\* leaves the ledger unchanged.
C8_OwnershipGateExact ==
    \A id \in {k \in DOMAIN ledger : IsComponentRecord(ledger[k])} :
        \A X \in {r \in ProbeRoles : ComponentAt(ledger, id).Owner # r} :
            \A o \in ProbeOwners :
                LET resp == TransferComponent(ledger, <<X, o, id>>)
                IN  Refused(resp, NotOwnerError) /\ Commit(ledger, resp) = ledger

\* C8 amended: for every role string X and every Component whose stored Owner
\* differs from X even when letter case is ignored, TransferComponent(X, newOwner,
\* id) fails with NotOwnerError and leaves the ledger unchanged.
C8_OwnershipGate ==
    /\ \A id \in {k \in DOMAIN ledger : LedgerIsNew /\ IsComponentRecord(ledger[k])} :
          \A X \in {r \in ProbeRoles : ~EqualFold(ComponentAt(ledger, id).Owner, r)} :
              \A o \in ProbeOwners :
                  LET resp == TransferComponent(ledger, <<X, o, id>>)
                  IN  Refused(resp, NotOwnerError) /\ Commit(ledger, resp) = ledger
    /\ (/\ last.fn = "TransferComponent"
        /\ Len(last.args) = 3
        /\ CheckIDFormat(last.args[3])
        /\ ~EqualFold(ComponentAt(prev, last.args[3]).Owner, last.args[1]))
       => /\ Refused(last.resp, NotOwnerError)
          /\ ledger = prev

\* A transfer by somebody who is not the owner of an existing Component was refused.
C8_Witness ==
    /\ Failed("TransferComponent", NotOwnerError)
    /\ IsComponentRecord(GetState(prev, last.args[3]))
    /\ ~EqualFold(ComponentAt(prev, last.args[3]).Owner, last.args[1])
    /\ ledger = prev

\* The keys named by a sequence of PutState calls.
PutKeys(puts) == {puts[i].key : i \in 1..Len(puts)}

\* The value of the last PutState to key k in puts.
LastPut(puts, k) ==
    puts[CHOOSE i \in 1..Len(puts) :
            /\ puts[i].key = k
            /\ \A j \in 1..Len(puts) : puts[j].key = k => j <= i].value

\* Every write of the invocation is in the ledger and nothing else has changed.
AllWritesApplied ==
    /\ DOMAIN ledger = DOMAIN prev \cup PutKeys(last.resp.puts)
    /\ \A k \in DOMAIN ledger :
          ledger[k] = IF k \in PutKeys(last.resp.puts) THEN LastPut(last.resp.puts, k)
                      ELSE prev[k]

\* C9: an invocation that returns a failure leaves every ledger key unchanged; one
\* that returns success has applied all of its writes: the Component and the Car
\* for MountComponent, both Components and the Car for ReplaceComponent.
C9_AllOrNothing ==
    /\ last.resp.status = ERROR => ledger = prev
    /\ (last.resp.status = ERROR /\ last.resp.msg # EmptyKeyError) => last.resp.puts = << >>
    /\ last.resp.status = OK => AllWritesApplied
    /\ Succeeded("MountComponent") =>
          /\ Len(last.resp.puts) = 2
          /\ last.resp.puts[1].key = last.args[2]
          /\ last.resp.puts[2].key = last.args[3]
          /\ IsComponentRecord(last.resp.puts[1].value)
          /\ last.resp.puts[2].value = [ComponentID |-> last.args[2]]
    /\ Succeeded("ReplaceComponent") =>
          /\ Len(last.resp.puts) = 3
          /\ last.resp.puts[1].key = last.args[2]
          /\ last.resp.puts[2].key = last.args[3]
          /\ last.resp.puts[3].key = CarAt(prev, last.args[3]).ComponentID
          /\ IsComponentRecord(last.resp.puts[1].value)
          /\ last.resp.puts[2].value = [ComponentID |-> last.args[2]]
          /\ IsComponentRecord(last.resp.puts[3].value)

\* A MountComponent whose second PutState was rejected after the first had been
\* accepted: the invocation failed and the ledger is as before.
C9_Witness ==
    /\ Failed("MountComponent", EmptyKeyError)
    /\ Len(last.resp.puts) = 1
    /\ ledger = prev

StateChangingOps ==
    {"InitLedger", "AddComponent", "TransferComponent", "MountComponent",
     "ReplaceComponent", "RecallComponent", "CreateCar"}

\* C10: every state-changing operation reads each key before it writes it: the
\* write set of every invocation is a subset of its read set.
C10_WritesWithinReads ==
    last.fn \in StateChangingOps => PutKeys(last.resp.puts) \subseteq last.resp.reads

(***************************************************************************)
(* Concurrent submission: endorse against the committed state, then order   *)
(* and validate (optimistic concurrency control of the ledger substrate)    *)
(***************************************************************************)
\* The invocations clients submit concurrently.
ConcurrentCalls ==
    {<<"InitLedger", << >> >>,
     <<"AddComponent", <<Supplier_s0, ID_100000001>> >>,
     <<"AddComponent", <<Supplier_s1, ID_100000001>> >>,
     <<"TransferComponent", <<Supplier_s0, Manufacture_m0, ID_100000001>> >>,
     <<"TransferComponent", <<Supplier_s0, Dealer_d0, ID_100000001>> >>,
     <<"MountComponent", <<Manufacture_m0, ID_100000001, CAR0>> >>,
     <<"MountComponent", <<Manufacture_m0, ID_000000005, CAR0>> >>,
     <<"ReplaceComponent", <<Manufacture_m0, ID_000000005, CAR0>> >>,
     <<"RecallComponent", <<Manufacture_m0, ID_100000001>> >>,
     <<"CreateCar", <<Manufacture_m0, ID_100000001, CAR0>> >>,
     <<"CreateCar", <<Manufacture_m0, ID_000000005, CAR0>> >>}

\* The version of a key: the height of the transaction that last wrote it, 0
\* for a key that was never written.
VersionOf(v, key) == IF key \in DOMAIN v THEN v[key] ELSE 0

\* Number of transactions validated so far.
Height == Len(log)

\* A peer simulates fn(args) against the committed ledger; a successful
\* simulation is endorsed and waits for ordering with its read versions.
EndorseWithin(bound, fn, args) ==
    /\ nops < bound
    /\ Cardinality(pending) < MaxPending
    /\ LET resp == Invoke(ledger, fn, args)
       IN  /\ resp.status = OK
           /\ pending' = pending \cup
                {[fn |-> fn, args |-> args, resp |-> resp, at |-> Height,
                  readVersions |-> [k \in resp.reads |-> VersionOf(versions, k)]]}
    /\ nops' = nops + 1
    /\ UNCHANGED <<ledger, prev, last, versions, log, rest, retry>>

Endorse(fn, args) == EndorseWithin(MaxTx, fn, args)

\* Commit-time check: every key the transaction read still has the version it
\* had when the transaction was simulated.
ReadSetCurrent(tx) ==
    \A k \in DOMAIN tx.readVersions : VersionOf(versions, k) = tx.readVersions[k]

\* The next ordered transaction is validated: it commits all its writes if its
\* read set is current, and is rejected without effect otherwise.
Validate(tx) ==
    /\ tx \in pending
    /\ pending' = pending \ {tx}
    /\ prev' = ledger
    /\ last' = [fn |-> tx.fn, args |-> tx.args, resp |-> tx.resp]
    /\ LET valid == ReadSetCurrent(tx)
       IN  /\ log' = Append(log, [fn |-> tx.fn, args |-> tx.args, at |-> tx.at,
                                  writes |-> {tx.resp.puts[i].key : i \in 1..Len(tx.resp.puts)},
                                  overwrote |-> {k \in {tx.resp.puts[i].key : i \in 1..Len(tx.resp.puts)} :
                                                    VersionOf(versions, k) > tx.at},
                                  valid |-> valid])
           /\ ledger' = IF valid THEN ApplyPuts(ledger, tx.resp.puts) ELSE ledger
           /\ versions' = IF valid
                          THEN [k \in DOMAIN versions \cup
                                      {tx.resp.puts[i].key : i \in 1..Len(tx.resp.puts)} |->
                                   IF k \in {tx.resp.puts[i].key : i \in 1..Len(tx.resp.puts)}
                                   THEN Height + 1 ELSE versions[k]]
                          ELSE versions
    /\ UNCHANGED <<nops, rest, retry>>

DoEndorse == \E c \in ConcurrentCalls : Endorse(c[1], c[2])

DoValidate == \E tx \in pending : Validate(tx)

NextConcurrent == DoEndorse \/ DoValidate

SpecConcurrent == Init /\ [][NextConcurrent]_vars

\* C11: of two invocations simulated against the same committed ledger state
\* whose write sets share a key, at most one commits, and no committed
\* transaction overwrites a write that was committed after it was simulated.
C11_ConflictingWritersExcluded ==
    /\ \A i, j \in 1..Len(log) :
          (/\ i < j
           /\ log[i].valid /\ log[j].valid
           /\ log[i].at = log[j].at)
          => log[i].writes \cap log[j].writes = {}
    /\ \A i \in 1..Len(log) : log[i].valid => log[i].overwrote = {}

\* Role strings whose first dot-separated segment is, and is not, "Manufacture"
\* or "Supplier" up to letter case.
ManufactureProbes == {Manufacture_m0, mANUFACTURE_M0, StrManufacture}

NonManufactureProbes == {Supplier_s0, Manufacturer_x, Dot_Manufacture, EmptyStr}

SupplierProbes == {Supplier_s0, supplier_S0, StrSupplier}

NonSupplierProbes == {Manufacture_m0, Dealer_d0, EmptyStr}

ManufactureOps == {"MountComponent", "ReplaceComponent", "RecallComponent", "CreateCar"}

\* The number of arguments each operation expects.
Arity(fn) ==
    CASE fn \in {"AddComponent", "RecallComponent"} -> 2
      [] fn \in {"TransferComponent", "MountComponent", "ReplaceComponent", "CreateCar"} -> 3
      [] fn \in {"QueryCar", "QueryComponent"} -> 1
      [] OTHER -> 0

\* What each role-gated handler would answer, on the current ledger, to roles
\* whose first segment is and is not the one it requires.
RoleGateProbes ==
    /\ \A r \in NonSupplierProbes :
          Refused(AddComponent(ledger, <<r, ID_100000001>>), SupplierRoleError)
    /\ \A r \in SupplierProbes :
          AddComponent(ledger, <<r, ID_100000001>>).msg # SupplierRoleError
    /\ \A r \in NonManufactureProbes :
          /\ Refused(MountComponent(ledger, <<r, ID_100000001, CAR0>>), ManufactureRoleError)
          /\ Refused(ReplaceComponent(ledger, <<r, ID_100000001, CAR0>>), ManufactureRoleError)
          /\ Refused(RecallComponent(ledger, <<r, ID_100000001>>), ManufactureRoleError)
          /\ Refused(CreateCar(ledger, <<r, ID_100000001, CAR0>>), ManufactureRoleError)
    /\ \A r \in ManufactureProbes :
          /\ MountComponent(ledger, <<r, ID_100000001, CAR0>>).msg # ManufactureRoleError
          /\ ReplaceComponent(ledger, <<r, ID_100000001, CAR0>>).msg # ManufactureRoleError
          /\ RecallComponent(ledger, <<r, ID_100000001>>).msg # ManufactureRoleError
          /\ CreateCar(ledger, <<r, ID_100000001, CAR0>>).status = OK

NineDigits(s) == Len(s) = IDLen /\ \A i \in 1..Len(s) : s[i] \in Digits

\* C13: the ComponentID validator accepts a string exactly when it has nine
\* characters, all of them decimal digits; here for the validator as applied
\* by QueryComponent and AddComponent to the ID they were just called with.
C13_ValidatorNineDigits ==
    /\ (last.fn = "QueryComponent" /\ Len(last.args) = 1) =>
          /\ CheckIDFormat(last.args[1]) <=> NineDigits(last.args[1])
          /\ (last.resp.msg = ValidationError) <=> ~NineDigits(last.args[1])
    /\ (/\ last.fn = "AddComponent" /\ Len(last.args) = 2
        /\ EqualFold(SplitFirst(last.args[1]), StrSupplier)) =>
          /\ CheckIDFormat(last.args[2]) <=> NineDigits(last.args[2])
          /\ (last.resp.msg = ValidationError) <=> ~NineDigits(last.args[2])

\* The operations that take a ComponentID, and the position of that argument.
ComponentIDOps ==
    {"AddComponent", "TransferComponent", "MountComponent", "ReplaceComponent",
     "RecallComponent", "CreateCar", "QueryComponent"}

IDPos(fn) ==
    CASE fn = "QueryComponent" -> 1
      [] fn = "TransferComponent" -> 3
      [] OTHER -> 2

\* The call was malformed: wrong number of arguments, or an ID the format check
\* turns down.
Malformed(fn, args) ==
    \/ Len(args) # Arity(fn)
    \/ ~CheckIDFormat(args[IDPos(fn)])

\* C14: an operation taking a ComponentID that is invoked with the wrong number
\* of arguments, or with an ID that fails the format check, fails and has
\* neither read nor written any ledger key.
C14_MalformedCallTouchesNothing ==
    (last.fn \in ComponentIDOps /\ Malformed(last.fn, last.args)) =>
        /\ last.resp.status = ERROR
        /\ last.resp.reads = {}
        /\ last.resp.puts = << >>
        /\ ledger = prev

\* A TransferComponent by the owner with a five-digit ID has just been turned
\* down by the format check.
C14_Witness ==
    /\ Failed("TransferComponent", ValidationError)
    /\ Len(last.args) = 3
    /\ ~CheckIDFormat(last.args[3])
    /\ last.resp.reads = {}

\* C15: QueryComponent with a well-formed ID returns the stored bytes when the
\* key is present and fails with the not-found error when it is absent.
C15_QueryComponentFindsOrFails ==
    (/\ last.fn = "QueryComponent" /\ Len(last.args) = 1
     /\ NineDigits(last.args[1])) =>
        IF GetState(prev, last.args[1]) # Nil
        THEN last.resp.status = OK /\ last.resp.payload = GetState(prev, last.args[1])
        ELSE Refused(last.resp, ComponentNotFoundError)

WasFreeComponent(id) ==
    /\ id \in DOMAIN prev
    /\ IsComponentRecord(prev[id])
    /\ ~ComponentAt(prev, id).Retired
    /\ ComponentAt(prev, id).CarID = EmptyStr

\* C17: MountComponent by a Manufacture role of an unretired, unmounted
\* Component C onto a Car K that is absent or names no Component succeeds;
\* afterwards the record read at C has CarID = K with Owner and Retired as
\* before, the record read at K has ComponentID = C, and no other key changed.
C17_MountPostconditions ==
    (/\ last.fn = "MountComponent" /\ Len(last.args) = 3
     /\ EqualFold(SplitFirst(last.args[1]), StrManufacture)
     /\ NineDigits(last.args[2])
     /\ WasFreeComponent(last.args[2])
     /\ CarAt(prev, last.args[3]).ComponentID = EmptyStr) =>
        LET C == last.args[2]
            K == last.args[3]
        IN  /\ last.resp.status = OK
            /\ QueryComponent(ledger, <<C>>).payload =
                  MarshalComponent([ComponentAt(prev, C) EXCEPT !.CarID = K])
            /\ QueryCar(ledger, <<K>>).status = OK
            /\ QueryCar(ledger, <<K>>).payload = MarshalCar([ComponentID |-> C])
            /\ \A k \in (DOMAIN ledger \cup DOMAIN prev) \ {C, K} :
                  k \in DOMAIN ledger /\ k \in DOMAIN prev /\ ledger[k] = prev[k]

\* Every key other than those in keys is as it was before the last invocation.
OtherKeysUnchanged(keys) ==
    /\ DOMAIN ledger \ keys = DOMAIN prev \ keys
    /\ \A k \in DOMAIN ledger \ keys : ledger[k] = prev[k]

\* C18: a successful TransferComponent(role, newOwner, C) sets the Owner read at
\* C to newOwner and leaves the Retired and CarID read at C, and every other
\* key, as they were; it succeeds for a retired Component too when role is the
\* stored Owner.
C18_TransferChangesOnlyOwner ==
    /\ (Succeeded("TransferComponent") /\ Len(last.args) = 3) =>
          LET C == last.args[3]
          IN  /\ ComponentAt(ledger, C) = [ComponentAt(prev, C) EXCEPT !.Owner = last.args[2]]
              /\ (C \in DOMAIN prev /\ IsComponentRecord(prev[C])) =>
                    ledger[C] = [prev[C] EXCEPT !.Owner = last.args[2]]
              /\ PutKeys(last.resp.puts) = {C}
              /\ OtherKeysUnchanged({C})
    /\ \A id \in ValidIDs :
          (LedgerIsNew /\ id \in DOMAIN ledger /\ IsComponentRecord(ledger[id])) =>
              LET resp == TransferComponent(ledger, <<ledger[id].Owner, Dealer_d0, id>>)
              IN  /\ resp.status = OK
                  /\ resp.puts = <<Put(id, [ledger[id] EXCEPT !.Owner = Dealer_d0])>>

\* The owner of a retired, still mounted Component has just transferred it.
C18_Witness ==
    /\ Succeeded("TransferComponent")
    /\ Len(last.args) = 3
    /\ last.args[3] \in DOMAIN prev
    /\ ComponentAt(prev, last.args[3]).Retired
    /\ ComponentAt(prev, last.args[3]).CarID # EmptyStr
    /\ ComponentAt(prev, last.args[3]).Owner = last.args[1]
    /\ ComponentAt(ledger, last.args[3]).Owner = last.args[2]

\* C19: RecallComponent by a Manufacture role of an unretired Component C sets
\* the record at C to {Retired: true, Owner: the role string, CarID: ""} and
\* changes no other key; every Car that named C before the call still names it.
C19_RecallEffect ==
    (/\ last.fn = "RecallComponent" /\ Len(last.args) = 2
     /\ EqualFold(SplitFirst(last.args[1]), StrManufacture)
     /\ NineDigits(last.args[2])
     /\ ~ComponentAt(prev, last.args[2]).Retired) =>
        LET C == last.args[2]
        IN  /\ last.resp.status = OK
            /\ GetState(ledger, C) =
                  MarshalComponent([Retired |-> TRUE, Owner |-> last.args[1],
                                    CarID |-> EmptyStr])
            /\ OtherKeysUnchanged({C})
            /\ \A k \in DOMAIN prev :
                  CarAt(prev, k).ComponentID = C => CarAt(ledger, k).ComponentID = C

\* C20: ReplaceComponent by a Manufacture role with a well-formed new Component
\* reports AlreadyRetiredError when the new Component is retired, else
\* AlreadyMountedError when it is mounted, else NoExistingComponentError when
\* the Car is absent or names no Component; each refusal writes nothing.
C20_ReplaceErrorPrecedence ==
    (/\ last.fn = "ReplaceComponent" /\ Len(last.args) = 3
     /\ EqualFold(SplitFirst(last.args[1]), StrManufacture)
     /\ CheckIDFormat(last.args[2])) =>
        LET Cnew == ComponentAt(prev, last.args[2])
            K    == CarAt(prev, last.args[3])
        IN  IF Cnew.Retired
            THEN Refused(last.resp, AlreadyRetiredError) /\ ledger = prev
            ELSE IF Cnew.CarID # EmptyStr
            THEN Refused(last.resp, AlreadyMountedError) /\ ledger = prev
            ELSE IF K.ComponentID = EmptyStr
            THEN Refused(last.resp, NoExistingComponentError) /\ ledger = prev
            ELSE last.resp.status = OK

\* ReplaceComponent with a free new Component has just been refused because the
\* Car key is absent; and a retired, mounted Component is in the ledger whose
\* replacement onto the same absent Car is refused as retired.
C20_Witness ==
    /\ Failed("ReplaceComponent", NoExistingComponentError)
    /\ WasFreeComponent(last.args[2])
    /\ last.args[3] \notin DOMAIN prev
    /\ ledger = prev
    /\ ComponentAt(ledger, ID_000000005).Retired
    /\ ComponentAt(ledger, ID_000000005).CarID # EmptyStr
    /\ Refused(ReplaceComponent(ledger, <<last.args[1], ID_000000005, last.args[3]>>),
               AlreadyRetiredError)

\* C21: when several preconditions of MountComponent fail at once the error is
\* that of the first failing check: argument count, role, ComponentID format,
\* component retired, component mounted, car occupied; nothing is written.
C21_MountErrorPrecedence ==
    /\ last.fn = "MountComponent" =>
          IF Len(last.args) # 3
          THEN Refused(last.resp, ArityError3) /\ ledger = prev
          ELSE IF ~EqualFold(SplitFirst(last.args[1]), StrManufacture)
          THEN Refused(last.resp, ManufactureRoleError) /\ ledger = prev
          ELSE IF ~CheckIDFormat(last.args[2])
          THEN Refused(last.resp, ValidationError) /\ ledger = prev
          ELSE IF ComponentAt(prev, last.args[2]).Retired
          THEN Refused(last.resp, AlreadyRetiredError) /\ ledger = prev
          ELSE IF ComponentAt(prev, last.args[2]).CarID # EmptyStr
          THEN Refused(last.resp, AlreadyMountedError) /\ ledger = prev
          ELSE IF CarAt(prev, last.args[3]).ComponentID # EmptyStr
          THEN Refused(last.resp, CarOccupiedError) /\ ledger = prev
          ELSE TRUE
    /\ last.fn \in {"", "InitLedger"} =>
          /\ Refused(MountComponent(ledger, <<Supplier_s0, ID_12345>>), ArityError3)
          /\ Refused(MountComponent(ledger, <<Supplier_s0, ID_12345, CAR0>>), ManufactureRoleError)
          /\ Refused(MountComponent(ledger, <<Supplier_s0, ID_000000005, CAR0>>),
                     ManufactureRoleError)
          /\ Refused(MountComponent(ledger, <<Manufacture_m0, ID_12345, CAR0>>), ValidationError)

\* A mount of a retired, still mounted Component onto an occupied Car has just
\* been refused as retired.
C21_Witness ==
    /\ Failed("MountComponent", AlreadyRetiredError)
    /\ Len(last.args) = 3
    /\ ComponentAt(prev, last.args[2]).Retired
    /\ ComponentAt(prev, last.args[2]).CarID # EmptyStr
    /\ CarAt(prev, last.args[3]).ComponentID # EmptyStr
    /\ ledger = prev

\* C22: CreateCar by a Manufacture role with a well-formed ComponentID C
\* succeeds whatever is stored at C or K, leaves the Car read at K with
\* ComponentID = C, and changes no Component record.
C22_CreateCarUnconditional ==
    (/\ last.fn = "CreateCar" /\ Len(last.args) = 3
     /\ EqualFold(SplitFirst(last.args[1]), StrManufacture)
     /\ NineDigits(last.args[2])) =>
        /\ last.resp.status = OK
        /\ CarAt(ledger, last.args[3]).ComponentID = last.args[2]
        /\ \A k \in DOMAIN prev :
              IsComponentRecord(prev[k]) => k \in DOMAIN ledger /\ ledger[k] = prev[k]

\* The six preset records as they are read back, by key.
PresetKeys ==
    {<<"0","0","0","0","0","0","0","0","0">>, <<"0","0","0","0","0","0","0","0","1">>,
     <<"0","0","0","0","0","0","0","0","2">>, <<"0","0","0","0","0","0","0","0","3">>,
     <<"0","0","0","0","0","0","0","0","4">>, <<"0","0","0","0","0","0","0","0","5">>}

PresetOwner(d) ==
    CASE d = "0" -> Supplier_s0
      [] d = "1" -> Supplier_s1
      [] d = "2" -> Manufacture_m0
      [] d = "3" -> Manufacture_m2
      [] d = "4" -> Dealer_d0
      [] d = "5" -> Dealer_d1

PresetRecord(key) ==
    [retired |-> key[IDLen] = "5", Owner |-> PresetOwner(key[IDLen]),
     carid |-> <<"C","A","R">> \o <<key[IDLen]>>]

PresetCarIDs == {<<"C","A","R">> \o <<d>> : d \in {"0","1","2","3","4","5"}}

NonCreatingOps ==
    {"TransferComponent", "MountComponent", "ReplaceComponent", "RecallComponent"}

\* C24: TransferComponent, MountComponent, ReplaceComponent and RecallComponent
\* never make a key that was absent hold a Component record.
C24_OnlyAddCreatesComponents ==
    last.fn \in NonCreatingOps =>
        \A k \in DOMAIN ledger \ DOMAIN prev : ~IsComponentRecord(ledger[k])

\* C25: a Car key whose record names a Component keeps a record naming some
\* Component after every invocation.
C25_CarStaysOccupied ==
    \A k \in DOMAIN prev :
        CarAt(prev, k).ComponentID # EmptyStr =>
            k \in DOMAIN ledger /\ CarAt(ledger, k).ComponentID # EmptyStr

\* The ledger cut down to the given keys.
Restrict(l, keys) == [k \in DOMAIN l \cap keys |-> l[k]]

\* C26: the response of an invocation (result and writes) is the same for every
\* client identity, and the same on any ledger that agrees with the one it ran
\* against on the keys it read; nothing of earlier invocations enters but the
\* ledger.
C26_DependsOnlyOnArgsAndReads ==
    last.fn # "" =>
        \A creatorAsBytes \in CreatorsSeenBy(last.fn) :
            /\ InvokeAs(creatorAsBytes, prev, last.fn, last.args) = last.resp
            /\ InvokeAs(creatorAsBytes, Restrict(prev, last.resp.reads),
                        last.fn, last.args) = last.resp

\* AddComponent has just succeeded after earlier invocations had filled other
\* keys of the ledger.
C26_Witness ==
    /\ Succeeded("AddComponent")
    /\ nops >= 2
    /\ DOMAIN prev \ last.resp.reads # {}
    /\ last.resp.puts # << >>

(***************************************************************************)
(* REST API server: one client, one IP, a valid token                       *)
(***************************************************************************)
\* Seconds between two clock readings.
TickSeconds == 20

RouteStatuses == {200, 500}

\* The client sends GET /api/blockchain/products; sent counts its requests and
\* firstAt is the time of the first.
GetProducts ==
    /\ rest.sent < MaxRequests
    /\ \E routeStatus \in RouteStatuses :
          rest' = [HandleGetProducts(rest, routeStatus) EXCEPT
                      !.sent = rest.sent + 1,
                      !.firstAt = IF rest.sent = 0 THEN rest.now ELSE rest.firstAt,
                      !.lastAt = rest.now]
    /\ UNCHANGED <<ledger, prev, last, nops, pending, versions, log, retry>>

Tick ==
    /\ rest.now + TickSeconds <= MaxTime
    /\ rest' = [rest EXCEPT !.now = rest.now + TickSeconds]
    /\ UNCHANGED <<ledger, prev, last, nops, pending, versions, log, retry>>

NextRest == GetProducts \/ Tick

SpecRest == Init /\ [][NextRest]_vars

\* C27: of the requests a client sends from one IP within one minute, each of
\* the first 100 gets a status other than 429 and every later one gets 429.
C27_HundredPerMinute ==
    (rest.sent >= 1 /\ rest.lastAt < rest.firstAt + 60) =>
        (rest.status = TooManyRequests <=> rest.sent > 100)

(***************************************************************************)
(* Races between two clients                                                *)
(***************************************************************************)
RaceCalls ==
    {<<"AddComponent", <<Supplier_s0, ID_100000001>> >>,
     <<"AddComponent", <<Supplier_s1, ID_100000001>> >>,
     <<"AddComponent", <<Supplier_s0, ID_000000005>> >>,
     <<"TransferComponent", <<Supplier_s0, Manufacture_m0, ID_100000001>> >>,
     <<"TransferComponent", <<Supplier_s0, Dealer_d0, ID_100000001>> >>,
     <<"MountComponent", <<Manufacture_m0, ID_100000001, CAR0>> >>,
     <<"MountComponent", <<Manufacture_m0, ID_000000005, CAR0>> >>,
     <<"CreateCar", <<Manufacture_m0, ID_100000001, CAR0>> >>}

DoEndorseRace == \E c \in RaceCalls : EndorseWithin(MaxRaceTx, c[1], c[2])

NextRace == DoEndorseRace \/ DoValidate

SpecRace == Init /\ [][NextRace]_vars

\* Entries i and j of the log are two invocations of fn that were simulated
\* against the same committed state.
RacePair(i, j, fn) ==
    /\ i < j
    /\ log[i].fn = fn /\ log[j].fn = fn
    /\ log[i].at = log[j].at

\* Nothing else was validated between their simulation and entry j.
Alone(i, j) == i = log[i].at + 1 /\ j = i + 1

\* C28: of two mounts of different Components onto the same empty Car that
\* were simulated against the same state at most one commits; once both are
\* processed, one of the two Components has CarID = K and the Car names it.
C28_MountRace ==
    \A i, j \in 1..Len(log) :
        (/\ RacePair(i, j, "MountComponent")
         /\ log[i].args[3] = log[j].args[3]
         /\ log[i].args[2] # log[j].args[2]) =>
            /\ ~(log[i].valid /\ log[j].valid)
            /\ (Alone(i, j) /\ j = Len(log)) =>
                  LET K      == log[i].args[3]
                      winner == IF log[i].valid THEN log[i].args[2] ELSE log[j].args[2]
                      loser  == IF log[i].valid THEN log[j].args[2] ELSE log[i].args[2]
                  IN  /\ log[i].valid \/ log[j].valid
                      /\ ComponentAt(ledger, winner).CarID = K
                      /\ ComponentAt(ledger, loser).CarID # K
                      /\ CarAt(ledger, K).ComponentID = winner

\* Two added Components were mounted onto CAR0 in a race: the first mount was
\* committed, the second has just been rejected.
C28_Witness ==
    /\ Len(log) = 4
    /\ RacePair(3, 4, "MountComponent")
    /\ log[3].args[2] # log[4].args[2]
    /\ log[3].valid /\ ~log[4].valid
    /\ IsComponentRecord(GetState(ledger, log[3].args[2]))
    /\ IsComponentRecord(GetState(ledger, log[4].args[2]))
    /\ ComponentAt(ledger, log[4].args[2]).CarID = EmptyStr
    /\ CarAt(ledger, CAR0).ComponentID = log[3].args[2]

\* C29: of two transfers of the same Component by its owner to different new
\* owners that were simulated against the same state at most one commits;
\* when nothing else intervenes exactly one does, the stored Owner is its new
\* owner, and the rejected one leaves the ledger as it was.
C29_TransferRace ==
    \A i, j \in 1..Len(log) :
        (/\ RacePair(i, j, "TransferComponent")
         /\ log[i].args[3] = log[j].args[3]
         /\ log[i].args[2] # log[j].args[2]) =>
            /\ ~(log[i].valid /\ log[j].valid)
            /\ (Alone(i, j) /\ j = Len(log)) =>
                  /\ log[i].valid /\ ~log[j].valid
                  /\ ComponentAt(ledger, log[i].args[3]).Owner = log[i].args[2]
                  /\ ledger = prev

\* The owner's two transfers of an added Component raced: the first was
\* committed and the second has just been rejected.
C29_Witness ==
    /\ Len(log) = 3
    /\ log[1].fn = "AddComponent" /\ log[1].valid
    /\ RacePair(2, 3, "TransferComponent")
    /\ log[2].args[2] # log[3].args[2]
    /\ log[2].valid /\ ~log[3].valid
    /\ ComponentAt(ledger, ID_100000001).Owner = log[2].args[2]

\* C30: of two AddComponent calls for the same absent ComponentID by different
\* Supplier roles that were simulated against the same state at most one
\* commits; when nothing else intervenes exactly one does and the stored Owner
\* is its role.
C30_AddRace ==
    \A i, j \in 1..Len(log) :
        (/\ RacePair(i, j, "AddComponent")
         /\ log[i].args[2] = log[j].args[2]
         /\ log[i].args[1] # log[j].args[1]) =>
            /\ ~(log[i].valid /\ log[j].valid)
            /\ (Alone(i, j) /\ j = Len(log)) =>
                  /\ log[i].valid /\ ~log[j].valid
                  /\ ComponentAt(ledger, log[i].args[2]).Owner = log[i].args[1]
                  /\ ledger = prev

\* Two Suppliers added the same ComponentID in a race: the first was committed
\* and owns the Component, the second has just been rejected.
C30_Witness ==
    /\ Len(log) = 2
    /\ RacePair(1, 2, "AddComponent")
    /\ log[1].args[1] # log[2].args[1]
    /\ log[1].valid /\ ~log[2].valid
    /\ GetState(ledger, ID_100000001) =
          MarshalComponent([Retired |-> FALSE, Owner |-> log[1].args[1], CarID |-> EmptyStr])

(***************************************************************************)
(* Linkage between Components and Cars                                      *)
(***************************************************************************)
\* Executions that invoke only AddComponent, TransferComponent, MountComponent
\* and ReplaceComponent, from the empty ledger.
NextCirculation ==
    \/ DoAddComponent
    \/ DoTransferComponent
    \/ DoMountComponent
    \/ DoReplaceComponent

SpecCirculation == Init /\ [][NextCirculation]_vars

\* C31: with only AddComponent, TransferComponent, MountComponent and
\* ReplaceComponent invoked from the empty ledger, every Component whose CarID
\* is K is the Component that the Car record at K names.
C31_MountedComponentIsNamedByItsCar ==
    \A C \in DOMAIN ledger :
        LET K == ComponentAt(ledger, C).CarID
        IN  K # EmptyStr => CarAt(ledger, K).ComponentID = C

\* The Components an assembly invocation names as components: its ComponentID
\* argument and, for ReplaceComponent, the Component the Car named before.
NamedComponents ==
    {last.args[2]} \cup
        (IF last.fn = "ReplaceComponent"
         THEN {CarAt(prev, last.args[3]).ComponentID} ELSE {})

\* C32: no committed invocation writes a Car record to a key that held a
\* Component record, or a Component record to a key that held a Car record;
\* and a successful MountComponent, ReplaceComponent or CreateCar leaves the
\* Retired and Owner read back for every Component it does not name unchanged.
C32_NoSharedKeys ==
    /\ last.resp.status = OK =>
          \A i \in 1..Len(last.resp.puts) :
              LET p == last.resp.puts[i]
              IN  p.key \in DOMAIN prev =>
                      (IsComponentRecord(p.value) <=> IsComponentRecord(prev[p.key]))
    /\ (last.fn \in {"MountComponent", "ReplaceComponent", "CreateCar"}
        /\ last.resp.status = OK) =>
          \A id \in DOMAIN prev \ NamedComponents :
              IsComponentRecord(prev[id]) =>
                  /\ ComponentAt(ledger, id).Retired = ComponentAt(prev, id).Retired
                  /\ ComponentAt(ledger, id).Owner = ComponentAt(prev, id).Owner

\* Executions that never invoke InitLedger, from the empty ledger.
NextNoInitLedger ==
    \/ DoAddComponent
    \/ DoTransferComponent
    \/ DoMountComponent
    \/ DoReplaceComponent
    \/ DoRecallComponent
    \/ DoCreateCar
    \/ DoQueryCar
    \/ DoQueryComponent
    \/ DoInvalidFunction

SpecNoInitLedger == Init /\ [][NextNoInitLedger]_vars

\* C33: when InitLedger is never invoked, every Component that reads as retired
\* reads with an empty CarID.
C33_RetiredIsUnmounted ==
    \A C \in DOMAIN ledger :
        ComponentAt(ledger, C).Retired => ComponentAt(ledger, C).CarID = EmptyStr

\* A mounted Component has just been recalled, or replaced on its Car, and is
\* now stored retired.
C33_Witness ==
    /\ last.fn \in {"RecallComponent", "ReplaceComponent"}
    /\ last.resp.status = OK
    /\ \E C \in DOMAIN prev :
          /\ IsComponentRecord(prev[C])
          /\ ComponentAt(prev, C).CarID # EmptyStr
          /\ ~ComponentAt(prev, C).Retired
          /\ C \in DOMAIN ledger
          /\ IsComponentRecord(ledger[C])
          /\ ComponentAt(ledger, C).Retired

\* C34: in every step, a Component whose stored CarID goes from non-empty to
\* empty is left retired by that same invocation.
C34_UnmountRetires ==
    \A C \in DOMAIN prev :
        (/\ IsComponentRecord(prev[C])
         /\ ComponentAt(prev, C).CarID # EmptyStr
         /\ ComponentAt(ledger, C).CarID = EmptyStr)
        => ComponentAt(ledger, C).Retired

(***************************************************************************)
(* Split chaincode variants                                                 *)
(***************************************************************************)
\* Each variant is a chaincode of its own with the same types, InitLedger,
\* CheckIDFormat, QueryCar and QueryComponent as the consolidated chaincode
\* (the same statements line for line) and its own handlers and dispatcher.

\* The variant that supports AddComponent: it fetches the creator and prints
\* the raw bytes without decoding them.
AddComponent_addcc(creator, l, args) ==
    IF Len(args) # 2 THEN Error(ArityError2, {}, << >>)
    ELSE LET rolename    == args[1]
             role        == SplitFirst(args[1])
             ComponentID == args[2]
         IN  IF ~EqualFold(role, StrSupplier) THEN Error(SupplierRoleError, {}, << >>)
             ELSE IF ~CheckIDFormat(ComponentID) THEN Error(ValidationError, {}, << >>)
             ELSE LET exist == GetState(l, ComponentID)
                      component == [Retired |-> FALSE, Owner |-> rolename, CarID |-> EmptyStr]
                  IN  IF exist # Nil THEN Error(AlreadyExistsError, {ComponentID}, << >>)
                      ELSE Success(Nil, {ComponentID},
                                   <<Put(ComponentID, MarshalComponent(component))>>)

Invoke_addcc(creator, l, fn, args) ==
    IF fn = "AddComponent" THEN AddComponent_addcc(creator, l, args)
    ELSE IF fn = "InitLedger" THEN InitLedger(l)
    ELSE IF fn = "QueryCar" THEN QueryCar(l, args)
    ELSE IF fn = "QueryComponent" THEN QueryComponent(l, args)
    ELSE Error(InvalidFunctionError, {}, << >>)

\* The variant that supports MountComponent, ReplaceComponent and RecallComponent.
MountComponent_assemblycc(l, args) ==
    IF Len(args) # 3 THEN Error(ArityError3, {}, << >>)
    ELSE LET rolename    == args[1]
             role        == SplitFirst(args[1])
             ComponentID == args[2]
             CarID       == args[3]
         IN  IF ~EqualFold(role, StrManufacture) THEN Error(ManufactureRoleError, {}, << >>)
             ELSE IF ~CheckIDFormat(ComponentID) THEN Error(ValidationError, {}, << >>)
             ELSE LET component == UnmarshalComponent(GetState(l, ComponentID))
                      car       == UnmarshalCar(GetState(l, CarID))
                      reads     == {ComponentID, CarID}
                      putComp   == Put(ComponentID,
                                       MarshalComponent([component EXCEPT !.CarID = CarID]))
                      putCar    == Put(CarID,
                                       MarshalCar([car EXCEPT !.ComponentID = ComponentID]))
                  IN  IF component.Retired THEN Error(AlreadyRetiredError, reads, << >>)
                      ELSE IF ~EqualFold(component.CarID, EmptyStr)
                           THEN Error(AlreadyMountedError, reads, << >>)
                      ELSE IF ~EqualFold(car.ComponentID, EmptyStr)
                           THEN Error(CarOccupiedError, reads, << >>)
                      ELSE IF ~PutStateOk(ComponentID) THEN Error(EmptyKeyError, reads, << >>)
                      ELSE IF ~PutStateOk(CarID) THEN Error(EmptyKeyError, reads, <<putComp>>)
                      ELSE Success(Nil, reads, <<putComp, putCar>>)

ReplaceComponent_assemblycc(l, args) ==
    IF Len(args) # 3 THEN Error(ArityError3, {}, << >>)
    ELSE LET rolename    == args[1]
             role        == SplitFirst(rolename)
             ComponentID == args[2]
             CarID       == args[3]
         IN  IF ~EqualFold(role, StrManufacture) THEN Error(ManufactureRoleError, {}, << >>)
             ELSE IF ~CheckIDFormat(ComponentID) THEN Error(ValidationError, {}, << >>)
             ELSE LET component == UnmarshalComponent(GetState(l, ComponentID))
                      car       == UnmarshalCar(GetState(l, CarID))
                      reads     == {ComponentID, CarID}
                  IN  IF component.Retired THEN Error(AlreadyRetiredError, reads, << >>)
                      ELSE IF ~EqualFold(component.CarID, EmptyStr)
                           THEN Error(AlreadyMountedError, reads, << >>)
                      ELSE IF EqualFold(car.ComponentID, EmptyStr)
                           THEN Error(NoExistingComponentError, reads, << >>)
                      ELSE LET oldComponentID == car.ComponentID
                               oldComponent   == UnmarshalComponent(GetState(l, oldComponentID))
                               newRec == [Retired |-> FALSE, Owner |-> oldComponent.Owner,
                                          CarID |-> CarID]
                               carRec == [car EXCEPT !.ComponentID = ComponentID]
                               oldRec == [Retired |-> TRUE, Owner |-> rolename,
                                          CarID |-> EmptyStr]
                           IN  Success(Nil, reads \cup {oldComponentID},
                                       Unchecked(<<Put(ComponentID, MarshalComponent(newRec)),
                                                   Put(CarID, MarshalCar(carRec)),
                                                   Put(oldComponentID, MarshalComponent(oldRec))>>))

RecallComponent_assemblycc(l, args) ==
    IF Len(args) # 2 THEN Error(ArityError2, {}, << >>)
    ELSE LET rolename    == args[1]
             role        == SplitFirst(rolename)
             ComponentID == args[2]
         IN  IF ~EqualFold(role, StrManufacture) THEN Error(ManufactureRoleError, {}, << >>)
             ELSE IF ~CheckIDFormat(ComponentID) THEN Error(ValidationError, {}, << >>)
             ELSE LET component == UnmarshalComponent(GetState(l, ComponentID))
                      recalled  == [Retired |-> TRUE, Owner |-> rolename, CarID |-> EmptyStr]
                  IN  IF component.Retired THEN Error(AlreadyRetiredError, {ComponentID}, << >>)
                      ELSE Success(Nil, {ComponentID},
                                   Unchecked(<<Put(ComponentID, MarshalComponent(recalled))>>))

\* Fault variant: the assembly variant also dispatches CreateCar.
Invoke_assemblycc_WithCreateCar(l, fn, args) ==
    IF fn = "MountComponent" THEN MountComponent_assemblycc(l, args)
    ELSE IF fn = "ReplaceComponent" THEN ReplaceComponent_assemblycc(l, args)
    ELSE IF fn = "RecallComponent" THEN RecallComponent_assemblycc(l, args)
    ELSE IF fn = "InitLedger" THEN InitLedger(l)
    ELSE IF fn = "CreateCar" THEN CreateCar(l, args)
    ELSE IF fn = "QueryCar" THEN QueryCar(l, args)
    ELSE IF fn = "QueryComponent" THEN QueryComponent(l, args)
    ELSE Error(InvalidFunctionError, {}, << >>)

Invoke_assemblycc(l, fn, args) ==
    IF fn = "MountComponent" THEN MountComponent_assemblycc(l, args)
    ELSE IF fn = "ReplaceComponent" THEN ReplaceComponent_assemblycc(l, args)
    ELSE IF fn = "RecallComponent" THEN RecallComponent_assemblycc(l, args)
    ELSE IF fn = "InitLedger" THEN InitLedger(l)
    ELSE IF fn = "QueryCar" THEN QueryCar(l, args)
    ELSE IF fn = "QueryComponent" THEN QueryComponent(l, args)
    ELSE Error(InvalidFunctionError, {}, << >>)

\* The variant that supports TransferComponent.
TransferComponent_transfercc(l, args) ==
    IF Len(args) # 3 THEN Error(ArityErrorTransfer, {}, << >>)
    ELSE LET ComponentID == args[3]
             rolename    == args[1]
             newOwner    == args[2]
         IN  IF ~CheckIDFormat(ComponentID) THEN Error(ValidationError, {}, << >>)
             ELSE LET component == UnmarshalComponent(GetState(l, ComponentID))
                      oldOwner  == component.Owner
                  IN  IF ~EqualFold(oldOwner, rolename)
                      THEN Error(NotOwnerError, {ComponentID}, << >>)
                      ELSE Success(Nil, {ComponentID},
                             <<Put(ComponentID,
                                   MarshalComponent([component EXCEPT !.Owner = newOwner]))>>)

Invoke_transfercc(l, fn, args) ==
    IF fn = "TransferComponent" THEN TransferComponent_transfercc(l, args)
    ELSE IF fn = "InitLedger" THEN InitLedger(l)
    ELSE IF fn = "QueryCar" THEN QueryCar(l, args)
    ELSE IF fn = "QueryComponent" THEN QueryComponent(l, args)
    ELSE Error(InvalidFunctionError, {}, << >>)

\* The functions every variant dispatches besides its own.
CommonFunctions == {"InitLedger", "QueryCar", "QueryComponent"}

\* What a variant must answer to the last call: the consolidated chaincode's
\* response when it exposes the function, the invalid-function error with no
\* read and no write otherwise.
Refines(resp, exposed) ==
    IF last.fn \in exposed \cup CommonFunctions
    THEN resp = last.resp
    ELSE Refused(resp, InvalidFunctionError) /\ resp.reads = {}

\* C35: on every reachable ledger and for every call, each split variant
\* returns the consolidated chaincode's result and writes for the functions it
\* exposes and the invalid-function error, touching nothing, for the others.
C35_VariantsRefineConsolidated ==
    last.fn # "" =>
        /\ \A creator \in CreatorsSeenBy(last.fn) :
              Refines(Invoke_addcc(creator, prev, last.fn, last.args), {"AddComponent"})
        /\ Refines(Invoke_assemblycc(prev, last.fn, last.args),
                   {"MountComponent", "ReplaceComponent", "RecallComponent"})
        /\ Refines(Invoke_transfercc(prev, last.fn, last.args), {"TransferComponent"})

\* The consolidated chaincode has just replaced a Component on a Car: the
\* assembly variant performs the same three writes and the two other variants
\* refuse the function.
C35_Witness ==
    /\ Succeeded("ReplaceComponent")
    /\ Len(last.resp.puts) = 3
    /\ Invoke_assemblycc(prev, last.fn, last.args).puts = last.resp.puts
    /\ Invoke_transfercc(prev, last.fn, last.args).msg = InvalidFunctionError
    /\ \A creator \in Creators :
          Invoke_addcc(creator, prev, last.fn, last.args).msg = InvalidFunctionError

(***************************************************************************)
(* REST API server: the product cache                                       *)
(***************************************************************************)
\* Each route handler runs to its await and resumes when the gateway call has
\* settled; handlers of different requests interleave at these points.
RestOnly == UNCHANGED <<ledger, prev, last, nops, pending, versions, log, retry>>

\* GET with a cache entry: answered from the cache without a gateway call.
GetFromCache(key) ==
    /\ rest.cache[key] # NoEntry
    /\ rest' = [rest EXCEPT !.answer = [key |-> key, data |-> rest.cache[key],
                                        since |-> rest.acked]]
    /\ RestOnly

\* GET without a cache entry: the handler calls the gateway and waits.
GetAwaitsGateway(key) ==
    /\ rest.cache[key] = NoEntry
    /\ Cardinality(rest.gets) < MaxInFlight
    /\ rest' = [rest EXCEPT !.gets = @ \cup {[key |-> key, phase |-> "await",
                                              data |-> NoEntry, since |-> rest.acked]}]
    /\ RestOnly

\* evaluateTransaction reads the ledger for a waiting GET.
GatewayReads(g) ==
    /\ g.phase = "await"
    /\ rest' = [rest EXCEPT !.gets = (@ \ {g}) \cup
                                        {[g EXCEPT !.phase = "settled", !.data = rest.store]}]
    /\ RestOnly

\* The gateway call of a waiting GET throws: the request is answered 404 or 500.
GatewayReadFails(g) ==
    /\ g.phase = "await"
    /\ rest' = [rest EXCEPT !.gets = @ \ {g}]
    /\ RestOnly

\* The GET handler resumes: cache.set(cacheKey, data) and res.json(data).
GetResumes(g) ==
    /\ g.phase = "settled"
    /\ rest' = [rest EXCEPT !.gets = @ \ {g},
                            !.cache[g.key] = g.data,
                            !.answer = [key |-> g.key, data |-> g.data, since |-> g.since]]
    /\ RestOnly

PostKinds == {"createProduct", "addTrackingEvent"}

\* POST /api/blockchain/products or .../:id/tracking: the handler submits the
\* transaction and waits.
PostAwaitsGateway(kind) ==
    /\ rest.store + Cardinality(rest.posts) < MaxWrites
    /\ Cardinality(rest.posts) < MaxInFlight
    /\ rest' = [rest EXCEPT !.posts = @ \cup {[kind |-> kind, phase |-> "await",
                                               version |-> 0]}]
    /\ RestOnly

\* submitTransaction commits the write of a waiting POST.
GatewayCommits(p) ==
    /\ p.phase = "await"
    /\ rest' = [rest EXCEPT !.store = rest.store + 1,
                            !.posts = (@ \ {p}) \cup
                                         {[p EXCEPT !.phase = "settled",
                                                    !.version = rest.store + 1]}]
    /\ RestOnly

\* submitTransaction throws: the POST is answered 500 and nothing was written.
GatewayCommitFails(p) ==
    /\ p.phase = "await"
    /\ rest' = [rest EXCEPT !.posts = @ \ {p}]
    /\ RestOnly

\* The cache keys a POST handler deletes once its write has succeeded.
Invalidated(kind) ==
    IF kind = "createProduct" THEN {ProductKey, AllProductsKey} ELSE {ProductKey}

\* The POST handler resumes: it deletes cache entries and answers success.
PostResumes(p) ==
    /\ p.phase = "settled"
    /\ rest' = [rest EXCEPT !.posts = @ \ {p},
                            !.cache = [k \in CacheKeys |->
                                          IF k \in Invalidated(p.kind) THEN NoEntry
                                          ELSE rest.cache[k]],
                            !.acked = IF p.version > @ THEN p.version ELSE @]
    /\ RestOnly

\* A cache entry reaches its time to live (stdTTL) and is dropped.
CacheExpires(key) ==
    /\ rest.cache[key] # NoEntry
    /\ rest' = [rest EXCEPT !.cache[key] = NoEntry]
    /\ RestOnly

NextCache ==
    \/ \E key \in CacheKeys : GetFromCache(key)
    \/ \E key \in CacheKeys : GetAwaitsGateway(key)
    \/ \E g \in rest.gets : GatewayReads(g)
    \/ \E g \in rest.gets : GatewayReadFails(g)
    \/ \E g \in rest.gets : GetResumes(g)
    \/ \E kind \in PostKinds : PostAwaitsGateway(kind)
    \/ \E p \in rest.posts : GatewayCommits(p)
    \/ \E p \in rest.posts : GatewayCommitFails(p)
    \/ \E p \in rest.posts : PostResumes(p)
    \/ \E key \in CacheKeys : CacheExpires(key)

SpecCache == Init /\ [][NextCache]_vars

\* C36: a GET that arrives after a POST has answered success is answered with
\* data read from the ledger after that POST's write.
C36_NoStaleReadAfterWrite ==
    rest.answer.key # "" => rest.answer.data >= rest.answer.since

(***************************************************************************)
(* Deployment manager: retryOperation                                       *)
(***************************************************************************)
RetryOnly == UNCHANGED <<ledger, prev, last, nops, pending, versions, log, rest>>

\* The integers passed as maxRetries.
RetryArgs == -1..MaxRetriesArg

\* retryOperation(operation, maxRetries, name) is called: let i = 0.
CallRetryOperation ==
    /\ retry.pc = "idle"
    /\ \E maxRetries \in RetryArgs :
          retry' = [retry EXCEPT !.pc = "for", !.maxRetries = maxRetries, !.i = 0]
    /\ RetryOnly

\* for (...; i < maxRetries; ...): enter the body, or fall off the end of the
\* function, which resolves the promise.
LoopTest ==
    /\ retry.pc = "for"
    /\ retry' = [retry EXCEPT !.pc = IF retry.i < retry.maxRetries THEN "try" ELSE "returned"]
    /\ RetryOnly

\* await operation() resolves: return.
OperationSucceeds ==
    /\ retry.pc = "try"
    /\ retry' = [retry EXCEPT !.pc = "returned", !.attempts = @ + 1, !.succeeded = TRUE]
    /\ RetryOnly

\* await operation() rejects: rethrow on the last round, otherwise log and sleep.
\* error is the number of the attempt whose error is thrown.
OperationFails ==
    /\ retry.pc = "try"
    /\ retry' = [retry EXCEPT !.attempts = @ + 1,
                              !.pc = IF retry.i = retry.maxRetries - 1 THEN "thrown" ELSE "sleep",
                              !.error = IF retry.i = retry.maxRetries - 1
                                        THEN retry.attempts + 1 ELSE @]
    /\ RetryOnly

\* await this.sleep(5000) resolves: i++.
SleepEnds ==
    /\ retry.pc = "sleep"
    /\ retry' = [retry EXCEPT !.pc = "for", !.i = @ + 1]
    /\ RetryOnly

NextRetry ==
    \/ CallRetryOperation
    \/ LoopTest
    \/ OperationSucceeds
    \/ OperationFails
    \/ SleepEnds

SpecRetry == Init /\ [][NextRetry]_vars

\* C37: retryOperation invokes operation at most maxRetries times, returns as
\* soon as an attempt has succeeded, throws the last attempt's error after
\* maxRetries failed attempts, and returns normally only after an attempt that
\* succeeded, for every integer maxRetries.
C37_RetryContract ==
    /\ retry.maxRetries >= 0 => retry.attempts <= retry.maxRetries
    /\ retry.succeeded => retry.pc = "returned"
    /\ retry.pc = "thrown" =>
          retry.attempts = retry.maxRetries /\ retry.error = retry.attempts
    /\ retry.pc = "returned" => retry.succeeded

====
